---- MODULE Spec2Model ----
(***************************************************************************)
(* A model of src/framework.py, the CORD-19 metadata explorer.             *)
(*                                                                         *)
(* The file holds two scripts one after the other: the interactive         *)
(* Streamlit dashboard (lines 1-90) and the console report (lines 94-188). *)
(* Each is modelled as its own entry point, selected by `variant`.         *)
(*                                                                         *)
(* Cells of a table are options: NaN is the empty tuple and a present      *)
(* value v is the one-element tuple <<v>>.  Text that the code parses      *)
(* (publish_time, abstract, title) is a tuple of one-character strings.    *)
(***************************************************************************)
EXTENDS Integers, Sequences, FiniteSets, TLC

VARIABLES
    variant,          \* "interactive" (lines 1-90) or "console" (lines 94-188)
    fileExists,       \* whether 'metadata.csv' is present
    file,             \* the rows of 'metadata.csv'
    copy_on_write,    \* pandas build: Copy-on-Write (pandas >= 3.0) or not
    pc,               \* position of the running script
    cache,            \* st.cache_data store of load_data: NaN or <<table>>
    bodyRuns,         \* completed executions of load_data's body in this process
    df,               \* the global df
    cleaned_df,       \* console: cleaned_df
    widget,           \* session state of the slider: NaN or <<<<lo, hi>>>>
    slider_min,       \* min_value passed to st.slider
    slider_max,       \* max_value passed to st.slider
    year_range,       \* value returned by st.slider: <<lo, hi>>
    filtered_df,      \* interactive: filtered_df
    papers_by_year,   \* value_counts().sort_index() of publication_year
    top_journals,     \* value_counts().head(10) of journal
    all_titles,       \* the space-joined title corpus
    wc_generated,     \* number of WordCloud.generate calls attempted
    out,              \* what the script has printed / rendered, in order
    error,            \* NaN or <<name of the uncaught exception>>
    exit_status,      \* console process: NaN while running, else <<status>>
    prev_prepared     \* the cleaned table of the previous process, if any

vars == <<variant, fileExists, file, copy_on_write, pc, cache, bodyRuns, df,
          cleaned_df, widget, slider_min, slider_max, year_range, filtered_df,
          papers_by_year, top_journals, all_titles, wc_generated, out, error,
          exit_status, prev_prepared>>

(***************************************************************************)
(* Bounds of the model and constants of the program.                       *)
(***************************************************************************)
MaxBase == 11      \* largest number of complete rows with distinct journals
MaxExtra == 3      \* largest number of further rows appended to them
SampleN == 10      \* df.sample(n=10)
TopN == 10         \* value_counts().head(10)

NaN == <<>>
Val(v) == <<v>>
IsNull(c) == c = NaN
NotNull(c) == c # NaN
Get(c) == c[1]

Min(S) == CHOOSE x \in S : \A y \in S : x <= y
Max(S) == CHOOSE x \in S : \A y \in S : x >= y

(***************************************************************************)
(* Text values.                                                            *)
(***************************************************************************)
Digits == {"0", "1", "2", "3", "4", "5", "6", "7", "8", "9"}

DigitVal(c) ==
    CASE c = "0" -> 0 [] c = "1" -> 1 [] c = "2" -> 2 [] c = "3" -> 3
      [] c = "4" -> 4 [] c = "5" -> 5 [] c = "6" -> 6 [] c = "7" -> 7
      [] c = "8" -> 8 [] c = "9" -> 9

D2019 == <<"2", "0", "1", "9", "-", "0", "3", "-", "0", "1">>
D2020 == <<"2", "0", "2", "0", "-", "0", "1", "-", "0", "1">>
D2021 == <<"2", "0", "2", "1", "-", "0", "6", "-", "1", "5">>
NotADate == <<"n", "o", "t", "-", "a", "-", "d", "a", "t", "e">>

TitleA == <<"c", "o", "v">>
TitleB == <<"f", "l", "u", " ", "2">>
AbstractA == <<"a", " ", "b", " ", " ", "c">>
AbstractB == <<"v", "i", "r", "u", "s">>

JournalName ==
    <<"J1", "J2", "J3", "J4", "J5", "J6", "J7", "J8", "J9", "J10", "J11", "J12",
      "J13", "J14", "J15", "J16">>

UnknownJournal == "Unknown Journal"

(***************************************************************************)
(* The input files considered: k complete rows of 2019 with distinct       *)
(* journals, followed by up to MaxExtra rows drawn in order from           *)
(* ExtraKinds; and the three-row table of the end-to-end scenario.         *)
(***************************************************************************)
Row(t, a, j, p) == [title |-> t, abstract |-> a, journal |-> j, publish_time |-> p]

BaseRow(i) == Row(Val(TitleA), Val(AbstractA), Val(JournalName[i]), Val(D2019))

Base(k) == [i \in 1..k |-> BaseRow(i)]

ExtraKinds ==
    << Row(NaN, Val(AbstractB), Val("J1"), Val(D2020)),
       Row(Val(TitleB), NaN, Val("J2"), Val(D2021)),
       Row(Val(TitleB), Val(AbstractB), NaN, Val(D2021)),
       Row(Val(TitleB), Val(AbstractA), Val("J1"), Val(NotADate)),
       Row(Val(TitleA), Val(AbstractB), Val(JournalName[MaxBase]), Val(D2021)),
       Row(Val(TitleB), Val(AbstractB), Val(JournalName[MaxBase]), Val(D2020)),
       Row(Val(TitleA), Val(AbstractA), Val("J2"), NaN) >>

RECURSIVE Pick(_, _)
\* the rows of ExtraKinds whose position is in S, in order, from position i on
Pick(S, i) ==
    IF i > Len(ExtraKinds) THEN <<>>
    ELSE (IF i \in S THEN <<ExtraKinds[i]>> ELSE <<>>) \o Pick(S, i + 1)

ExtraChoices == {S \in SUBSET (1..Len(ExtraKinds)) : Cardinality(S) <= MaxExtra}

ExampleTable ==
    << Row(Val(TitleA), Val(AbstractA), Val("J1"), Val(D2020)),
       Row(Val(TitleB), Val(AbstractB), NaN, Val(NotADate)),
       Row(Val(TitleA), Val(AbstractB), Val("J1"), Val(D2021)) >>

InputTables ==
    {Base(k) \o Pick(S, 1) : k \in 0..MaxBase, S \in ExtraChoices} \cup {ExampleTable}

(***************************************************************************)
(* pandas operations used by both scripts.                                 *)
(***************************************************************************)
\* df[name] = v on one row: the column is added or replaced
SetCol(r, name, v) == [c \in DOMAIN r \cup {name} |-> IF c = name THEN v ELSE r[c]]

\* pd.read_csv: empty fields are NaN already; rows get the RangeIndex 0..n-1
ReadCsv(f) == [i \in 1..Len(f) |-> SetCol(f[i], "idx", i - 1)]

\* dropna(subset=['title', 'abstract'])
HasTitleAndAbstract(r) == NotNull(r.title) /\ NotNull(r.abstract)
DropNa(t) == SelectSeq(t, HasTitleAndAbstract)

\* the journal column with NaN filled
FillJournal(t) ==
    [i \in 1..Len(t) |->
        IF IsNull(t[i].journal) THEN SetCol(t[i], "journal", Val(UnknownJournal)) ELSE t[i]]

\* t['journal'].fillna('Unknown Journal', inplace=True): an inplace method on
\* the intermediate Series t['journal'].  Without Copy-on-Write the Series
\* shares the table's data and the table is updated; with Copy-on-Write
\* (pandas >= 3.0) the Series behaves as a copy and the table is left alone.
FillNaChained(t, cow) == IF cow THEN t ELSE FillJournal(t)

IsDigitAt(s, i) == s[i] \in Digits
Num2(s, i) == 10 * DigitVal(s[i]) + DigitVal(s[i + 1])
Num4(s, i) == 100 * Num2(s, i) + Num2(s, i + 2)

IsLeap(y) == (y % 4 = 0 /\ y % 100 # 0) \/ y % 400 = 0
DaysIn(y, m) ==
    IF m = 2 THEN (IF IsLeap(y) THEN 29 ELSE 28)
    ELSE IF m \in {4, 6, 9, 11} THEN 30 ELSE 31

IsIsoDate(s) ==
    /\ Len(s) = 10
    /\ s[5] = "-" /\ s[8] = "-"
    /\ \A i \in {1, 2, 3, 4, 6, 7, 9, 10} : IsDigitAt(s, i)
    /\ Num2(s, 6) \in 1..12
    /\ Num2(s, 9) \in 1..DaysIn(Num4(s, 1), Num2(s, 6))

\* pd.to_datetime(x, errors='coerce') of one cell: a timestamp, or NaT
ToDatetime(c) ==
    IF NotNull(c) /\ IsIsoDate(Get(c))
    THEN Val([year |-> Num4(Get(c), 1), month |-> Num2(Get(c), 6), day |-> Num2(Get(c), 9)])
    ELSE NaN

\* .dt.year of one cell
DtYear(c) == IF IsNull(c) THEN NaN ELSE Val(Get(c).year)

RECURSIVE Tokens(_, _, _)
\* number of whitespace-separated tokens of s from position i on; inTok says
\* whether position i - 1 is inside a token
Tokens(s, i, inTok) ==
    IF i > Len(s) THEN 0
    ELSE IF s[i] = " " THEN Tokens(s, i + 1, FALSE)
    ELSE (IF inTok THEN 0 ELSE 1) + Tokens(s, i + 1, TRUE)

\* len(str(x).split())
WordCount(c) == IF IsNull(c) THEN 1 ELSE Tokens(Get(c), 1, FALSE)

\* the three derived columns, lines 13-15 and 133-139
Derive(t) ==
    [i \in 1..Len(t) |->
        LET ts == ToDatetime(t[i].publish_time)
            r1 == SetCol(t[i], "publish_time", ts)
            r2 == SetCol(r1, "publication_year", DtYear(ts))
        IN SetCol(r2, "abstract_word_count", WordCount(t[i].abstract))]

\* the body of load_data, lines 10-16
Prepare(f, cow) == Derive(FillNaChained(DropNa(ReadCsv(f)), cow))


\* NaN compares False with everything
Ge(c, x) == NotNull(c) /\ Get(c) >= x
Le(c, x) == NotNull(c) /\ Get(c) <= x

RECURSIVE BoolIndex(_, _, _)
\* t[mask]: the rows of t from position i on whose mask entry is True
BoolIndex(t, mask, i) ==
    IF i > Len(t) THEN <<>>
    ELSE (IF mask[i] THEN <<t[i]>> ELSE <<>>) \o BoolIndex(t, mask, i + 1)

\* the filter with the upper end left out
YearFilterExclusive(t, yr) ==
    LET mask == [i \in 1..Len(t) |->
                    Ge(t[i].publication_year, yr[1])
                    /\ NotNull(t[i].publication_year) /\ Get(t[i].publication_year) < yr[2]]
    IN BoolIndex(t, mask, 1)

\* line 50: df[(df['publication_year'] >= lo) & (df['publication_year'] <= hi)]
YearFilter(t, yr) ==
    LET ge == [i \in 1..Len(t) |-> Ge(t[i].publication_year, yr[1])]
        le == [i \in 1..Len(t) |-> Le(t[i].publication_year, yr[2])]
        mask == [i \in 1..Len(t) |-> ge[i] /\ le[i]]
    IN BoolIndex(t, mask, 1)

Column(t, name) == [i \in 1..Len(t) |-> t[i][name]]

RECURSIVE Uniques(_, _)
\* the distinct non-null cells of s in order of first appearance, after seen
Uniques(s, seen) ==
    IF s = <<>> THEN <<>>
    ELSE IF IsNull(Head(s)) \/ Head(s) \in seen THEN Uniques(Tail(s), seen)
    ELSE <<Head(s)>> \o Uniques(Tail(s), seen \cup {Head(s)})

Occurrences(s, c) == Cardinality({i \in 1..Len(s) : s[i] = c})

RECURSIVE InsertByCount(_, _)
\* e placed behind every entry whose count is not smaller
InsertByCount(sorted, e) ==
    IF sorted = <<>> THEN <<e>>
    ELSE IF Head(sorted).count >= e.count
         THEN <<Head(sorted)>> \o InsertByCount(Tail(sorted), e)
         ELSE <<e>> \o sorted

RECURSIVE SortByCount(_, _)
SortByCount(done, rest) ==
    IF rest = <<>> THEN done
    ELSE SortByCount(InsertByCount(done, Head(rest)), Tail(rest))

\* Series.value_counts(): NaN dropped, one entry per distinct value, counts
\* descending; equal counts stay in order of first appearance
ValueCounts(s) ==
    LET u == Uniques(s, {})
        entries == [i \in 1..Len(u) |-> [key |-> Get(u[i]), count |-> Occurrences(s, u[i])]]
    IN SortByCount(<<>>, entries)

RECURSIVE InsertByKey(_, _)
InsertByKey(sorted, e) ==
    IF sorted = <<>> THEN <<e>>
    ELSE IF Head(sorted).key <= e.key
         THEN <<Head(sorted)>> \o InsertByKey(Tail(sorted), e)
         ELSE <<e>> \o sorted

RECURSIVE SortIndexFrom(_, _)
SortIndexFrom(done, rest) ==
    IF rest = <<>> THEN done
    ELSE SortIndexFrom(InsertByKey(done, Head(rest)), Tail(rest))

\* the counts left in value_counts order
NoSortIndex(vc) == vc

\* .sort_index()
SortIndex(vc) == SortIndexFrom(<<>>, vc)

\* the whole of s, whatever n
HeadAll(s, n) == s

\* .head(n)
HeadN(s, n) == SubSeq(s, 1, IF Len(s) < n THEN Len(s) ELSE n)

\* lines 54 and 146
PapersByYear(t) == SortIndex(ValueCounts(Column(t, "publication_year")))

\* lines 68 and 151
TopJournals(t) == HeadN(ValueCounts(Column(t, "journal")), TopN)

RECURSIVE JoinFrom(_, _)
\* ' '.join of the titles from position i on
JoinFrom(titles, i) ==
    IF i > Len(titles) THEN <<>>
    ELSE IF i = Len(titles) THEN Get(titles[i])
    ELSE Get(titles[i]) \o <<" ">> \o JoinFrom(titles, i + 1)

\* lines 82 and 178: ' '.join(title for title in t['title'].astype(str))
AllTitles(t) == JoinFrom(Column(t, "title"), 1)

\* truth value of a str: non-empty
Truthy(s) == Len(s) > 0

\* WordCloud.generate raises ValueError when the text holds no word
HasWord(s) == \E i \in 1..Len(s) : s[i] # " "

YearsOf(t) == {Get(t[i].publication_year) : i \in {j \in 1..Len(t) : NotNull(t[j].publication_year)}}

\* the year of the last row that has one
YearMaxLastSeen(t) ==
    LET withYear == {j \in 1..Len(t) : NotNull(t[j].publication_year)}
    IN IF withYear = {} THEN NaN ELSE t[Max(withYear)].publication_year

\* df['publication_year'].min() and .max(): NaN skipped, NaN when none is left
YearMin(t) == IF YearsOf(t) = {} THEN NaN ELSE Val(Min(YearsOf(t)))

YearMax(t) == IF YearsOf(t) = {} THEN NaN ELSE Val(Max(YearsOf(t)))

\* st.slider's value=: the default selection, line 46
SliderDefault(t) == <<Get(YearMin(t)), Get(YearMax(t))>>

\* nothing is kept: the function runs undecorated
CacheStoreNothing(c, t) == c

\* @st.cache_data, line 8: the value returned by the body is stored
CacheStore(c, t) == Val(t)

\* the rows that survive dropna saved over metadata.csv
FileWrittenBack(f) == SelectSeq(f, HasTitleAndAbstract)

\* the body of load_data works on the in-memory frame only: metadata.csv is
\* opened for reading and never written
FileAfterLoad(f) == f


\* exit(code): a missing code is None, and the process ends with status 0
ExitStatus(code) == IF IsNull(code) THEN 0 ELSE Get(code)

(***************************************************************************)
(* Initial state: a fresh process of either script.                        *)
(***************************************************************************)
EntryPoint(v) == IF v = "interactive" THEN "start" ELSE "c_load"

ScriptGlobalsInit ==
    /\ df = <<>>
    /\ cleaned_df = <<>>
    /\ slider_min = NaN
    /\ slider_max = NaN
    /\ year_range = NaN
    /\ filtered_df = <<>>
    /\ papers_by_year = <<>>
    /\ top_journals = <<>>
    /\ all_titles = <<>>
    /\ wc_generated = 0
    /\ out = <<>>
    /\ error = NaN

Init ==
    /\ variant \in {"interactive", "console"}
    /\ \/ fileExists = TRUE /\ file \in InputTables
       \/ fileExists = FALSE /\ file = <<>>
    /\ copy_on_write \in BOOLEAN
    /\ pc = EntryPoint(variant)
    /\ cache = NaN
    /\ bodyRuns = 0
    /\ widget = NaN
    /\ exit_status = NaN
    /\ prev_prepared = NaN
    /\ ScriptGlobalsInit

Env == <<variant, fileExists, copy_on_write>>
Charts == <<papers_by_year, top_journals, all_titles, wc_generated>>
SliderVars == <<slider_min, slider_max, year_range>>

\* an exception leaves the interactive script: the run is over
Raise(name) ==
    /\ pc' = "crashed"
    /\ error' = Val(name)

(***************************************************************************)
(* The interactive script, lines 7-90.                                     *)
(***************************************************************************)
\* line 19: df = load_data(), through the cache of line 8
LoadData ==
    /\ pc = "start"
    /\ IF NotNull(cache)
       THEN /\ df' = Get(cache)
            /\ pc' = "sample"
            /\ UNCHANGED <<cache, bodyRuns, file, error>>
       ELSE IF ~fileExists
       THEN /\ Raise("FileNotFoundError")
            /\ UNCHANGED <<cache, bodyRuns, file, df>>
       ELSE /\ df' = Prepare(file, copy_on_write)
            /\ cache' = CacheStore(cache, df')
            /\ bodyRuns' = bodyRuns + 1
            /\ file' = FileAfterLoad(file)
            /\ pc' = "sample"
            /\ UNCHANGED error
    /\ UNCHANGED <<Env, cleaned_df, widget, SliderVars, filtered_df, Charts, out,
                   exit_status, prev_prepared>>

\* lines 22-36: the headings and st.dataframe(df.sample(n=10)); sample raises
\* ValueError when the table has fewer than n rows
ShowSample ==
    /\ pc = "sample"
    /\ IF Len(df) < SampleN
       THEN Raise("ValueError") /\ UNCHANGED out
       ELSE pc' = "slider" /\ out' = Append(out, "sample") /\ UNCHANGED error
    /\ UNCHANGED <<Env, file, cache, bodyRuns, df, cleaned_df, widget, SliderVars,
                   filtered_df, Charts, exit_status, prev_prepared>>

\* lines 42-47: st.slider.  int(nan) raises ValueError when no row has a
\* year.  When both bounds coincide, Streamlit releases differ: some reject
\* the slider with StreamlitAPIException, some show it.
Slider ==
    /\ pc = "slider"
    /\ IF IsNull(YearMin(df))
       THEN Raise("ValueError") /\ UNCHANGED SliderVars
       ELSE \/ /\ slider_min' = YearMin(df)
               /\ slider_max' = YearMax(df)
               /\ year_range' = IF IsNull(widget) THEN SliderDefault(df) ELSE Get(widget)
               /\ pc' = "filter"
               /\ UNCHANGED error
            \/ /\ YearMin(df) = YearMax(df)
               /\ Raise("StreamlitAPIException")
               /\ UNCHANGED SliderVars
    /\ UNCHANGED <<Env, file, cache, bodyRuns, df, cleaned_df, widget, filtered_df,
                   Charts, out, exit_status, prev_prepared>>

\* line 50
Filter ==
    /\ pc = "filter"
    /\ filtered_df' = YearFilter(df, year_range)
    /\ pc' = "by_year"
    /\ UNCHANGED <<Env, file, cache, bodyRuns, df, cleaned_df, widget, SliderVars,
                   Charts, out, error, exit_status, prev_prepared>>

\* lines 53-60
PlotByYear ==
    /\ pc = "by_year"
    /\ papers_by_year' = PapersByYear(filtered_df)
    /\ out' = Append(out, "line_chart")
    /\ pc' = "journals"
    /\ UNCHANGED <<Env, file, cache, bodyRuns, df, cleaned_df, widget, SliderVars,
                   filtered_df, top_journals, all_titles, wc_generated, error,
                   exit_status, prev_prepared>>

\* lines 67-74
PlotJournals ==
    /\ pc = "journals"
    /\ top_journals' = TopJournals(filtered_df)
    /\ out' = Append(out, "bar_chart")
    /\ pc' = "wordcloud"
    /\ UNCHANGED <<Env, file, cache, bodyRuns, df, cleaned_df, widget, SliderVars,
                   filtered_df, papers_by_year, all_titles, wc_generated, error,
                   exit_status, prev_prepared>>

\* lines 81-90
WordCloudPanel ==
    /\ pc = "wordcloud"
    /\ all_titles' = AllTitles(filtered_df)
    /\ IF Truthy(all_titles')
       THEN /\ wc_generated' = wc_generated + 1
            /\ IF HasWord(all_titles')
               THEN pc' = "rendered" /\ out' = Append(out, "word_cloud") /\ UNCHANGED error
               ELSE Raise("ValueError") /\ UNCHANGED out
       ELSE /\ out' = Append(out, "no_data_message")
            /\ pc' = "rendered"
            /\ UNCHANGED <<wc_generated, error>>
    /\ UNCHANGED <<Env, file, cache, bodyRuns, df, cleaned_df, widget, SliderVars,
                   filtered_df, papers_by_year, top_journals, exit_status, prev_prepared>>

\* the user moves the slider: Streamlit keeps the selection in the session
\* and runs the script again from the top with fresh globals
SelectRange ==
    /\ pc = "rendered"
    /\ \E lo \in Get(slider_min)..Get(slider_max), hi \in Get(slider_min)..Get(slider_max) :
        /\ lo <= hi
        /\ <<lo, hi>> # year_range
        /\ widget' = Val(<<lo, hi>>)
    /\ pc' = "start"
    /\ df' = <<>> /\ cleaned_df' = <<>>
    /\ slider_min' = NaN /\ slider_max' = NaN /\ year_range' = NaN
    /\ filtered_df' = <<>> /\ papers_by_year' = <<>> /\ top_journals' = <<>>
    /\ all_titles' = <<>> /\ wc_generated' = 0 /\ out' = <<>> /\ error' = NaN
    /\ UNCHANGED <<Env, file, cache, bodyRuns, exit_status, prev_prepared>>


(***************************************************************************)
(* The console script, lines 94-188.                                       *)
(***************************************************************************)
\* an exception leaves the console script: the interpreter prints the
\* traceback and ends with status 1
Abort(name) ==
    /\ pc' = "crashed"
    /\ error' = Val(name)
    /\ exit_status' = Val(1)

\* lines 98-103
ConsoleLoad ==
    /\ pc = "c_load"
    /\ IF fileExists
       THEN /\ df' = ReadCsv(file)
            /\ out' = Append(out, "Data loaded successfully!")
            /\ pc' = "c_inspect"
            /\ UNCHANGED exit_status
       ELSE /\ out' = Append(out, "Error: The file 'metadata.csv' was not found.")
            /\ exit_status' = Val(ExitStatus(NaN))
            /\ pc' = "exited"
            /\ UNCHANGED df
    /\ UNCHANGED <<Env, file, cache, bodyRuns, cleaned_df, widget, SliderVars, filtered_df,
                   Charts, error, prev_prepared>>

\* lines 105-120: head, shape, info and the null counts are printed
ConsoleInspect ==
    /\ pc = "c_inspect"
    /\ out' = out \o <<"head", "dimensions", "info", "missing values">>
    /\ pc' = "c_clean"
    /\ UNCHANGED <<Env, file, cache, bodyRuns, df, cleaned_df, widget, SliderVars,
                   filtered_df, Charts, error, exit_status, prev_prepared>>

\* lines 123-130
ConsoleClean ==
    /\ pc = "c_clean"
    /\ cleaned_df' = FillNaChained(DropNa(df), copy_on_write)
    /\ out' = Append(out, "missing values after cleaning")
    /\ pc' = "c_derive"
    /\ UNCHANGED <<Env, file, cache, bodyRuns, df, widget, SliderVars, filtered_df,
                   Charts, error, exit_status, prev_prepared>>

\* lines 133-143
ConsoleDerive ==
    /\ pc = "c_derive"
    /\ cleaned_df' = Derive(cleaned_df)
    /\ out' = Append(out, "info after preparation")
    /\ pc' = "c_aggregate"
    /\ UNCHANGED <<Env, file, cache, bodyRuns, df, widget, SliderVars, filtered_df,
                   Charts, error, exit_status, prev_prepared>>

\* lines 146-153
ConsoleAggregate ==
    /\ pc = "c_aggregate"
    /\ papers_by_year' = PapersByYear(cleaned_df)
    /\ top_journals' = TopJournals(cleaned_df)
    /\ out' = out \o <<"papers per year", "top journals">>
    /\ pc' = "c_plot"
    /\ UNCHANGED <<Env, file, cache, bodyRuns, df, cleaned_df, widget, SliderVars,
                   filtered_df, all_titles, wc_generated, error, exit_status,
                   prev_prepared>>

\* lines 156-172
ConsolePlot ==
    /\ pc = "c_plot"
    /\ out' = out \o <<"line_chart", "bar_chart">>
    /\ pc' = "c_wordcloud"
    /\ UNCHANGED <<Env, file, cache, bodyRuns, df, cleaned_df, widget, SliderVars,
                   filtered_df, Charts, error, exit_status, prev_prepared>>

\* lines 175-188: the corpus goes to WordCloud.generate whatever it holds
ConsoleWordCloud ==
    /\ pc = "c_wordcloud"
    /\ all_titles' = AllTitles(cleaned_df)
    /\ wc_generated' = wc_generated + 1
    /\ IF HasWord(all_titles')
       THEN /\ out' = Append(out, "word_cloud")
            /\ pc' = "done"
            /\ exit_status' = Val(ExitStatus(NaN))
            /\ UNCHANGED error
       ELSE Abort("ValueError") /\ UNCHANGED out
    /\ UNCHANGED <<Env, file, cache, bodyRuns, df, cleaned_df, widget, SliderVars,
                   filtered_df, papers_by_year, top_journals, prev_prepared>>

(***************************************************************************)
(* A new process on the same machine: nothing in memory survives, the      *)
(* file does.                                                              *)
(***************************************************************************)
\* the cleaned table this process has produced, if it got that far
Prepared ==
    IF variant = "interactive" THEN cache
    ELSE IF pc \in {"c_aggregate", "c_plot", "c_wordcloud", "done", "crashed"}
    THEN Val(cleaned_df)
    ELSE NaN

Relaunch ==
    /\ pc \in {"rendered", "crashed", "done", "exited"}
    /\ prev_prepared' = IF NotNull(Prepared) THEN Prepared ELSE prev_prepared
    /\ pc' = EntryPoint(variant)
    /\ cache' = NaN
    /\ bodyRuns' = 0
    /\ widget' = NaN
    /\ exit_status' = NaN
    /\ df' = <<>> /\ cleaned_df' = <<>>
    /\ slider_min' = NaN /\ slider_max' = NaN /\ year_range' = NaN
    /\ filtered_df' = <<>> /\ papers_by_year' = <<>> /\ top_journals' = <<>>
    /\ all_titles' = <<>> /\ wc_generated' = 0 /\ out' = <<>> /\ error' = NaN
    /\ UNCHANGED <<Env, file>>

Next ==
    \/ LoadData
    \/ ShowSample
    \/ Slider
    \/ Filter
    \/ PlotByYear
    \/ PlotJournals
    \/ WordCloudPanel
    \/ SelectRange
    \/ ConsoleLoad
    \/ ConsoleInspect
    \/ ConsoleClean
    \/ ConsoleDerive
    \/ ConsoleAggregate
    \/ ConsolePlot
    \/ ConsoleWordCloud
    \/ Relaunch

Spec == Init /\ [][Next]_vars


(***************************************************************************)
(* Properties.                                                             *)
(***************************************************************************)
Interactive == variant = "interactive"
Console == variant = "console"

\* the script holds its cleaned table
AfterCleaning ==
    \/ Interactive /\ pc \in {"sample", "slider", "filter", "by_year", "journals",
                              "wordcloud", "rendered"}
    \/ Console /\ pc \in {"c_derive", "c_aggregate", "c_plot", "c_wordcloud", "done"}

CleanedTable == IF Interactive THEN df ELSE cleaned_df

\* the table the charts are drawn from
ChartTable == IF Interactive THEN filtered_df ELSE cleaned_df

RowSet(t) == {t[i] : i \in 1..Len(t)}

InYearRange(r, lo, hi) ==
    NotNull(r.publication_year) /\ lo <= Get(r.publication_year) /\ Get(r.publication_year) <= hi

\* C1: after the cleaning step of either variant no row of the cleaned table
\* has a null title, a null abstract or a null journal.
C1_CleanedHasNoNulls ==
    AfterCleaning =>
        \A i \in 1..Len(CleanedTable) :
            /\ NotNull(CleanedTable[i].title)
            /\ NotNull(CleanedTable[i].abstract)
            /\ NotNull(CleanedTable[i].journal)

FilterDone == Interactive /\ pc \in {"by_year", "journals", "wordcloud", "rendered"}

\* C2: for a selected range [lo, hi] within the slider's bounds the filtered
\* view holds exactly the rows of the cleaned table whose publication_year is
\* present and lies in lo..hi, both ends included, each once and in order.
C2_FilterIsExactlyTheRange ==
    FilterDone =>
        /\ Get(slider_min) <= year_range[1] /\ year_range[2] <= Get(slider_max)
        /\ RowSet(filtered_df) = {r \in RowSet(df) : InYearRange(r, year_range[1], year_range[2])}
        /\ \A i, j \in 1..Len(filtered_df) :
              i < j => filtered_df[i].idx < filtered_df[j].idx

\* C2 witness: a narrowed selection that keeps a row on each end of the range,
\* leaves out a row of another year and a row without a year.
C2_Witness ==
    /\ FilterDone
    /\ NotNull(widget)
    /\ year_range[1] < year_range[2]
    /\ \E r \in RowSet(filtered_df) : r.publication_year = Val(year_range[1])
    /\ \E r \in RowSet(filtered_df) : r.publication_year = Val(year_range[2])
    /\ \E r \in RowSet(df) : IsNull(r.publication_year)
    /\ \E r \in RowSet(df) : NotNull(r.publication_year) /\ r \notin RowSet(filtered_df)

\* C3: with 'metadata.csv' missing the console script prints the error, ends
\* with a non-zero exit status and runs no later step.
C3_MissingFileExitsNonZero ==
    (Console /\ ~fileExists /\ pc # "c_load") =>
        /\ out = <<"Error: The file 'metadata.csv' was not found.">>
        /\ NotNull(exit_status) /\ Get(exit_status) # 0
        /\ cleaned_df = <<>> /\ papers_by_year = <<>> /\ top_journals = <<>>
        /\ wc_generated = 0

\* C4: with the file missing the interactive script does not crash: the
\* FileNotFoundError of the load step does not leave the script.
C4_MissingFileIsCaught ==
    (Interactive /\ ~fileExists) => pc # "crashed" /\ error # Val("FileNotFoundError")

\* the word-cloud step has run
WordCloudStepRun ==
    \/ pc \in {"rendered", "done"}
    \/ Console /\ pc = "crashed"

\* C5: whenever no title remains in the table being rendered, the word-cloud
\* step shows the placeholder message, attempts no generation and raises no
\* error, in both scripts.
C5_EmptyCorpusTakesPlaceholder ==
    (WordCloudStepRun /\ Len(ChartTable) = 0) =>
        /\ wc_generated = 0
        /\ error = NaN
        /\ out[Len(out)] = "no_data_message"

\* C6: within one process the body of load_data completes at most once, and
\* every run of the script works on the table the cache holds.
C6_PreparedAtMostOnce ==
    /\ bodyRuns <= 1
    /\ (Interactive /\ AfterCleaning) => NotNull(cache) /\ bodyRuns = 1 /\ df = Get(cache)

\* C6 witness: a re-run after a slider change got its table from the cache.
C6_Witness == Interactive /\ NotNull(widget) /\ pc = "sample" /\ bodyRuns = 1

ByYearDone ==
    \/ Interactive /\ pc \in {"journals", "wordcloud", "rendered"}
    \/ Console /\ pc \in {"c_plot", "c_wordcloud", "done", "crashed"}

RowsOfYear(t, y) == {i \in 1..Len(t) : t[i].publication_year = Val(y)}

ExampleYears == <<Val(2020), NaN, Val(2021)>>
ExampleSeries == <<[key |-> 2020, count |-> 1], [key |-> 2021, count |-> 1]>>

\* C7: the time series has one entry per distinct non-null publication_year
\* of the table, carrying the number of rows of that year, in ascending order
\* of year; rows without a year are in no entry.  For the three-row example
\* the years are 2020, null, 2021 and the series is {2020: 1, 2021: 1}.
C7_TimeSeries ==
    ByYearDone =>
        /\ \A i, j \in 1..Len(papers_by_year) :
              i < j => papers_by_year[i].key < papers_by_year[j].key
        /\ {papers_by_year[i].key : i \in 1..Len(papers_by_year)} = YearsOf(ChartTable)
        /\ \A i \in 1..Len(papers_by_year) :
              papers_by_year[i].count = Cardinality(RowsOfYear(ChartTable, papers_by_year[i].key))
        /\ (Console /\ file = ExampleTable) =>
              /\ Column(cleaned_df, "publication_year") = ExampleYears
              /\ papers_by_year = ExampleSeries

\* C7 witness: the example went through the console script.
C7_Witness == Console /\ file = ExampleTable /\ pc = "done"

TopDone ==
    \/ Interactive /\ pc \in {"wordcloud", "rendered"}
    \/ Console /\ pc \in {"c_plot", "c_wordcloud", "done", "crashed"}

RowsOfJournal(t, j) == {i \in 1..Len(t) : t[i].journal = Val(j)}
JournalsOf(t) == {Get(t[i].journal) : i \in {k \in 1..Len(t) : NotNull(t[k].journal)}}
TopKeys == {top_journals[i].key : i \in 1..Len(top_journals)}

\* C8: the top journals are at most 10, each with its number of rows, the
\* counts never increase along the sequence, and no journal left out has more
\* rows than a returned one.
C8_TopJournals ==
    TopDone =>
        /\ Len(top_journals) <= TopN
        /\ \A i, j \in 1..Len(top_journals) :
              i < j => /\ top_journals[i].count >= top_journals[j].count
                       /\ top_journals[i].key # top_journals[j].key
        /\ \A i \in 1..Len(top_journals) :
              /\ top_journals[i].key \in JournalsOf(ChartTable)
              /\ top_journals[i].count = Cardinality(RowsOfJournal(ChartTable, top_journals[i].key))
        /\ \A j \in JournalsOf(ChartTable) \ TopKeys :
              \A i \in 1..Len(top_journals) :
                  Cardinality(RowsOfJournal(ChartTable, j)) <= top_journals[i].count

\* C8 witness: more than 10 journals, unequal counts, the most frequent one
\* first seen after the tenth.
C8_Witness ==
    /\ TopDone
    /\ Cardinality(JournalsOf(ChartTable)) > TopN
    /\ Len(top_journals) = TopN
    /\ top_journals[1].count > top_journals[TopN].count
    /\ top_journals[1].key = JournalName[MaxBase]

SliderShown == Interactive /\ pc \in {"filter", "by_year", "journals", "wordcloud", "rendered"}

\* C10: after any sequence of selections the slider's bounds are the least
\* and greatest publication_year of the whole cleaned table, the table is the
\* one first loaded, the selection is the full range until the user makes
\* one, and the filtered view is the rows of the whole table in the current
\* selection.
C10_SliderOverFullTable ==
    SliderShown =>
        LET full == Get(cache) IN
        /\ df = full
        /\ Get(slider_min) \in YearsOf(full) /\ Get(slider_max) \in YearsOf(full)
        /\ \A y \in YearsOf(full) : Get(slider_min) <= y /\ y <= Get(slider_max)
        /\ year_range = IF IsNull(widget) THEN <<Get(slider_min), Get(slider_max)>>
                        ELSE Get(widget)
        /\ FilterDone =>
              RowSet(filtered_df) =
                  {r \in RowSet(full) : InYearRange(r, year_range[1], year_range[2])}

\* C10 witness: a re-run with a selection narrower than the bounds, on a
\* table whose last dated row is not of the greatest year.
C10_Witness ==
    /\ Interactive /\ pc = "rendered" /\ NotNull(widget)
    /\ Len(filtered_df) < Len(df)
    /\ year_range # <<Get(slider_min), Get(slider_max)>>
    /\ YearMaxLastSeen(df) # slider_max

====
